---------------------------- MODULE Spec2Model ----------------------------
(***************************************************************************)
(* Label-anchored layout / reflow engine of repopulate.js.                 *)
(*                                                                         *)
(* Conventions                                                             *)
(*  - a JavaScript string is a sequence of one-character strings, so that  *)
(*    split, trim, toLowerCase and startsWith are computed, not assumed;   *)
(*  - token and page geometry (x, y, width, height) is in PDF points;      *)
(*  - the text cursor arithmetic of writeAnswerInBox and of                *)
(*    createContinuationPages is carried in TENTHS of a point, because     *)
(*    lineHeight = fontSize * 1.3 and verticalOffset = 1.5 are not whole   *)
(*    points (names carrying such values end in 10);                       *)
(*  - text widths are in 1/1000 point: Helvetica glyph widths (AFM units)  *)
(*    times the font size (names carrying such values end in 1000).        *)
(***************************************************************************)
EXTENDS Integers, Sequences, FiniteSets, TLC

VARIABLES
    wrap, find, box,    \* the pure functions exercised on their own
    main,               \* main: its position, and the locals of its last iteration
    parsedPages,        \* the text index, one entry per page
    pages,              \* pdfDoc.getPages(): the drawable pages
    pageSizes,          \* pages.map((p) => p.getSize())
    pdfDoc,             \* the document's own page order (what save() writes)
    continuations,      \* the queued continuation jobs
    skippedItems, skippedCount, processedCount,
    cont,               \* createContinuationPages: its position and locals
    drawn               \* every drawText / drawImage call so far, in order

mainVars ==
    <<main, parsedPages, pages, pageSizes, pdfDoc, continuations,
      skippedItems, skippedCount, processedCount, cont, drawn>>

vars == <<wrap, find, box, mainVars>>

\* The value of a component's variable under a specification that does not
\* exercise that component.
WrapIdle == [pc |-> "idle"]

FindIdle == [pc |-> "idle"]

BoxIdle == [pc |-> "idle"]

MainIdle ==
    /\ main = [pc |-> "idle"]
    /\ parsedPages = <<>> /\ pages = <<>> /\ pageSizes = <<>> /\ pdfDoc = <<>>
    /\ continuations = <<>>
    /\ skippedItems = <<>> /\ skippedCount = 0 /\ processedCount = 0
    /\ cont = [at |-> "idle"]
    /\ drawn = <<>>

(***************************************************************************)
(* Generic helpers on sequences                                            *)
(***************************************************************************)
Min(a, b) == IF a < b THEN a ELSE b

Max(a, b) == IF a > b THEN a ELSE b

\* Array.prototype.slice(from, to) with 0-based, end-exclusive indices.
slice(s, from, to) == SubSeq(s, from + 1, Min(to, Len(s)))

\* All sequences over S of length at most n.
SeqsUpTo(S, n) == UNION {[1..k -> S] : k \in 0..n}

(***************************************************************************)
(* Strings                                                                 *)
(***************************************************************************)
\* The characters the regular expression class \s matches, as far as the
\* model's alphabet goes.
Whitespace == {" ", "\n", "\r", "\t"}

UpperCaseLetters == <<"A","B","C","D","E","F","G","H","I","J","K","L","M",
                      "N","O","P","Q","R","S","T","U","V","W","X","Y","Z">>

LowerCaseLetters == <<"a","b","c","d","e","f","g","h","i","j","k","l","m",
                      "n","o","p","q","r","s","t","u","v","w","x","y","z">>

\* The characters strings of the model are made of.
Alphabet ==
    {UpperCaseLetters[u] : u \in 1..26} \cup {LowerCaseLetters[u] : u \in 1..26}
    \cup Whitespace \cup {"0","1","2","3","4","5","6","7","8","9",":",".","(",")"}

lowerChar ==
    [c \in Alphabet |->
        IF \E u \in 1..26 : UpperCaseLetters[u] = c
        THEN LowerCaseLetters[CHOOSE u \in 1..26 : UpperCaseLetters[u] = c]
        ELSE c]

\* String.prototype.toLowerCase
toLowerCase(s) == [n \in 1..Len(s) |-> lowerChar[s[n]]]

\* String.prototype.startsWith
startsWith(s, prefix) ==
    /\ Len(prefix) <= Len(s)
    /\ SubSeq(s, 1, Len(prefix)) = prefix

\* String.prototype.trim
RECURSIVE trimStart(_)
trimStart(s) ==
    IF s # <<>> /\ Head(s) \in Whitespace THEN trimStart(Tail(s)) ELSE s

RECURSIVE trimEnd(_)
trimEnd(s) ==
    IF s # <<>> /\ s[Len(s)] \in Whitespace
    THEN trimEnd(SubSeq(s, 1, Len(s) - 1))
    ELSE s

trim(s) == trimEnd(trimStart(s))

\* text.replace(/\r\n/g, ' ')
RECURSIVE replaceCRLF(_)
replaceCRLF(s) ==
    IF s = <<>> THEN <<>>
    ELSE IF Len(s) >= 2 /\ s[1] = "\r" /\ s[2] = "\n"
         THEN <<" ">> \o replaceCRLF(SubSeq(s, 3, Len(s)))
         ELSE <<s[1]>> \o replaceCRLF(Tail(s))

\* text.replace(/c/g, ' ') for a single character c
replaceChar(s, c) == [n \in 1..Len(s) |-> IF s[n] = c THEN " " ELSE s[n]]

\* text.replace(/\s+/g, ' '): every maximal whitespace run becomes one space.
RECURSIVE replaceWsRuns(_)
replaceWsRuns(s) ==
    IF s = <<>> THEN <<>>
    ELSE IF s[1] \in Whitespace
         THEN <<" ">> \o replaceWsRuns(trimStart(s))
         ELSE <<s[1]>> \o replaceWsRuns(Tail(s))

\* String.prototype.split(/\s+/): the pieces between maximal whitespace runs;
\* a leading or trailing run yields an empty first or last piece, and the
\* empty string yields one empty piece.
RECURSIVE splitFrom(_, _, _, _)
splitFrom(s, n, cur, acc) ==
    IF n > Len(s) THEN Append(acc, cur)
    ELSE IF s[n] \in Whitespace
         THEN IF n > 1 /\ s[n - 1] \in Whitespace
              THEN splitFrom(s, n + 1, cur, acc)
              ELSE splitFrom(s, n + 1, <<>>, Append(acc, cur))
         ELSE splitFrom(s, n + 1, Append(cur, s[n]), acc)

splitWs(s) == splitFrom(s, 1, <<>>, <<>>)

(***************************************************************************)
(* Text cleaning (loadExcelWithImages applies it to every row's Answer)    *)
(***************************************************************************)
cleanAnswerText(text) ==
    IF text = <<>> THEN <<>>
    ELSE trim(replaceWsRuns(replaceChar(replaceChar(replaceCRLF(text), "\n"), "\r")))

(***************************************************************************)
(* Font metrics: pdf-lib's Helvetica, font.widthOfTextAtSize(text, size)   *)
(* is the sum of the glyph widths (AFM units, 1/1000 em) times size/1000.  *)
(***************************************************************************)
GlyphWidth(c) ==
    CASE c \in {" ", ":", "i", "l", "\n", "\r", "\t"} -> IF c \in {"i", "l"} THEN 222 ELSE 278
      [] c \in {"r"} -> 333
      [] c \in {"c", "s", "y", "x"} -> 500
      [] c \in {"A"} -> 667
      [] c \in {"C", "w", "R"} -> 722
      [] c \in {"Q"} -> 778
      [] c \in {"m"} -> 833
      [] c \in {"W"} -> 944
      [] OTHER -> 556

RECURSIVE GlyphSum(_)
GlyphSum(s) == IF s = <<>> THEN 0 ELSE GlyphWidth(Head(s)) + GlyphSum(Tail(s))

\* In 1/1000 point.
widthOfTextAtSize1000(text, size) == GlyphSum(text) * size

(***************************************************************************)
(* Text wrapping                                                           *)
(***************************************************************************)
RECURSIVE wrapWords(_, _, _, _, _, _)
wrapWords(words, k, line, lines, size, maxWidth1000) ==
    IF k > Len(words)
    THEN IF line # <<>> THEN Append(lines, line) ELSE lines
    ELSE LET word == words[k]
             testLine == IF line # <<>> THEN line \o <<" ">> \o word ELSE word
             width == widthOfTextAtSize1000(testLine, size)
         IN  IF width > maxWidth1000 /\ line # <<>>
             THEN wrapWords(words, k + 1, word, Append(lines, line), size, maxWidth1000)
             ELSE wrapWords(words, k + 1, testLine, lines, size, maxWidth1000)

\* A wrapText that forgets to push the full line when a word overflows.
RECURSIVE wrapWordsDropping(_, _, _, _, _, _)
wrapWordsDropping(words, k, line, lines, size, maxWidth1000) ==
    IF k > Len(words)
    THEN IF line # <<>> THEN Append(lines, line) ELSE lines
    ELSE LET word == words[k]
             testLine == IF line # <<>> THEN line \o <<" ">> \o word ELSE word
             width == widthOfTextAtSize1000(testLine, size)
         IN  IF width > maxWidth1000 /\ line # <<>>
             THEN wrapWordsDropping(words, k + 1, word, lines, size, maxWidth1000)
             ELSE wrapWordsDropping(words, k + 1, testLine, lines, size, maxWidth1000)

wrapTextDropping(text, size, maxWidth1000) ==
    wrapWordsDropping(splitWs(text), 1, <<>>, <<>>, size, maxWidth1000)

wrapText(text, size, maxWidth1000) ==
    wrapWords(splitWs(text), 1, <<>>, <<>>, size, maxWidth1000)

(***************************************************************************)
(* wrapText on its own: an Answer as loadExcelWithImages delivers it       *)
(* (cleaned by cleanAnswerText) is wrapped at a chosen width.              *)
(***************************************************************************)
MaxTextLen == 5

WrapChars == {"a", "W", " ", "\n"}

\* baseFontSize, and the size of ordinary body text.
WrapFontSizes == {8, 10}

\* In 1/1000 point; at size 10: narrower than any glyph, room for "a" but
\* not "W", room for "a a" but not "a W", and room for everything.
WrapWidths == {-1000, 6000, 15000, 100000}

WrapInit ==
    \E raw \in SeqsUpTo(WrapChars, MaxTextLen), w \in WrapWidths, size \in WrapFontSizes :
        wrap = [pc |-> "raw", raw |-> raw, maxWidth1000 |-> w, size |-> size]

\* loadExcelWithImages: Answer: cleanAnswerText(row.Answer)
LoadAnswer ==
    /\ wrap.pc = "raw"
    /\ wrap' = [pc |-> "loaded", raw |-> wrap.raw, maxWidth1000 |-> wrap.maxWidth1000,
                size |-> wrap.size,
                Answer |-> cleanAnswerText(wrap.raw)]
    /\ UNCHANGED <<find, box, mainVars>>

\* writeAnswerWithFlow (the token-shifting variant): the row's Answer is only
\* trimmed before it is wrapped: wrapText((row.Answer || "").toString().trim(), ...)
WrapAnswerFlow ==
    /\ wrap.pc = "raw"
    /\ wrap' = [pc |-> "wrapped", raw |-> wrap.raw, maxWidth1000 |-> wrap.maxWidth1000,
                size |-> wrap.size,
                Answer |-> trim(wrap.raw),
                allLines |-> wrapText(trim(wrap.raw), wrap.size, wrap.maxWidth1000)]
    /\ UNCHANGED <<find, box, mainVars>>

\* writeAnswerInBox: const allLines = wrapText(answerText, helv, useFontSize, maxWidth)
WrapAnswer ==
    /\ wrap.pc = "loaded"
    /\ wrap' = [pc |-> "wrapped", raw |-> wrap.raw, maxWidth1000 |-> wrap.maxWidth1000,
                size |-> wrap.size,
                Answer |-> wrap.Answer,
                allLines |-> wrapText(wrap.Answer, wrap.size, wrap.maxWidth1000)]
    /\ UNCHANGED <<find, box, mainVars>>

(***************************************************************************)
(* C4                                                                      *)
(***************************************************************************)
RECURSIVE JoinLines(_)
JoinLines(lines) ==
    IF lines = <<>> THEN <<>>
    ELSE IF Len(lines) = 1 THEN lines[1]
         ELSE lines[1] \o <<" ">> \o JoinLines(Tail(lines))

\* The positions of s that survive when every whitespace run is collapsed:
\* every non-whitespace character and the first character of every run.
KeptPositions(s) ==
    {n \in 1..Len(s) : s[n] \notin Whitespace \/ n = 1 \/ s[n - 1] \notin Whitespace}

\* s with every whitespace run collapsed to one space.
WhitespaceCollapsed(s) ==
    LET K == KeptPositions(s)
        nth(k) == CHOOSE n \in K : Cardinality({m \in K : m < n}) = k - 1
    IN  [k \in 1..Cardinality(K) |->
            IF s[nth(k)] \in Whitespace THEN " " ELSE s[nth(k)]]

RECURSIVE WordsOfLines(_)
WordsOfLines(lines) ==
    IF lines = <<>> THEN <<>>
    ELSE splitWs(lines[1]) \o WordsOfLines(Tail(lines))

IsWord(w) == w # <<>>

\* C4: wrapText is lossless modulo whitespace: the returned lines joined with
\* single spaces are the answer text with its whitespace runs collapsed, and
\* the words of the lines are the words of the text, in order, none dropped,
\* duplicated or split.
C4_WrapLossless ==
    wrap.pc = "wrapped" =>
        /\ JoinLines(wrap.allLines) = WhitespaceCollapsed(wrap.Answer)
        /\ WordsOfLines(wrap.allLines) = SelectSeq(splitWs(wrap.Answer), IsWord)

\* A text with a whitespace run to collapse is wrapped to several lines, one
\* of them a single word wider than maxWidth.
C4_Witness ==
    /\ wrap.pc = "wrapped"
    /\ Len(wrap.allLines) >= 2
    /\ wrap.Answer # WhitespaceCollapsed(wrap.Answer)
    /\ \E n \in 1..Len(wrap.allLines) :
          widthOfTextAtSize1000(wrap.allLines[n], wrap.size) > wrap.maxWidth1000

SpecWrapInit == WrapInit /\ find = FindIdle /\ box = BoxIdle /\ MainIdle

SpecWrapNext == LoadAnswer \/ WrapAnswerFlow \/ WrapAnswer

SpecWrap == SpecWrapInit /\ [][SpecWrapNext]_vars

(***************************************************************************)
(* Anchor / target locator: findTargetPosition                             *)
(*                                                                         *)
(* Indices (pageIndex, labelPageIndex, token positions, distances) are the *)
(* code's 0-based ones; item(page, i) reads page.items[i].                 *)
(***************************************************************************)
null == [isNull |-> TRUE]

kwCompliancy == <<"c","o","m","p","l","i","a","n","c","y">>

kwAnswer == <<"a","n","s","w","e","r">>

\* let minDistance = Infinity
Infinity == 1000000000

\* if (!bestMatch || minDistance > 100)
SamePageThreshold == 100

\* nextP < Math.min(p + 11, pages.length)
PageWindowEnd == 11

\* Math.min(150, nextPage.items.length)
SearchLimit == 150

\* const distance = pageDiff * 500 + k
PageWeight == 500

item(page, i) == page.items[i + 1]

\* label.startsWith("R") ? ["compliancy", "answer"] : ["answer"]
targetsFor(label) ==
    IF startsWith(label, <<"R">>) THEN <<kwCompliancy, kwAnswer>> ELSE <<kwAnswer>>

\* targets.some((t) => word.startsWith(t)), word = str.toLowerCase()
someTarget(targets, str) ==
    \E t \in 1..Len(targets) : startsWith(toLowerCase(str), targets[t])

\* A findKeyword that reports the preferred keyword, not the matched one.
findKeywordPreferred(targets, str) == targets[1]

\* targets.find((t) => word.startsWith(t))
findKeyword(targets, str) ==
    targets[CHOOSE t \in 1..Len(targets) :
                /\ startsWith(toLowerCase(str), targets[t])
                /\ \A u \in 1..(t - 1) : ~startsWith(toLowerCase(str), targets[u])]

\* The first index in lo..hi the loop body's condition holds at (the loops
\* over j and over k break there), or -1.
firstTarget(page, lo, hi, targets) ==
    LET hits == {j \in lo..hi : someTarget(targets, item(page, j).str)}
    IN  IF hits = {} THEN -1 ELSE CHOOSE j \in hits : \A h \in hits : j <= h

\* The next index from i on whose token is the label, or -1: the loop over i
\* does nothing at any other token.
nextLabel(page, i, label) ==
    LET hits == {n \in i..(Len(page.items) - 1) : item(page, n).str = label}
    IN  IF hits = {} THEN -1 ELSE CHOOSE n \in hits : \A h \in hits : n <= h

matchAt(textPages, p, i, q, j, targets) ==
    [pageIndex |-> q,
     x |-> item(textPages[q + 1], j).x,
     y |-> item(textPages[q + 1], j).y,
     width |-> item(textPages[q + 1], j).width,
     fontSize |-> item(textPages[q + 1], j).fontSize,
     keyword |-> findKeyword(targets, item(textPages[q + 1], j).str),
     labelPageIndex |-> p,
     labelY |-> item(textPages[p + 1], i).y]

\* Strategy 1: search forward on the same page.
searchSamePage(st, textPages, p, i, targets) ==
    LET j == firstTarget(textPages[p + 1], i + 1, Len(textPages[p + 1].items) - 1, targets)
    IN  IF j # -1 /\ j - i < st.minDistance
        THEN [bestMatch |-> matchAt(textPages, p, i, p, j, targets), minDistance |-> j - i]
        ELSE st

\* A searchNextPages that does not stop at the per-page token cap.
RECURSIVE searchNextPagesUncapped(_, _, _, _, _, _)
searchNextPagesUncapped(st, textPages, p, i, nextP, targets) ==
    IF nextP >= Min(p + PageWindowEnd, Len(textPages)) THEN st
    ELSE LET nextPage == textPages[nextP + 1]
             k == firstTarget(nextPage, 0, Len(nextPage.items) - 1, targets)
             distance == (nextP - p) * PageWeight + k
             st2 == IF k # -1 /\ distance < st.minDistance
                    THEN [bestMatch |-> matchAt(textPages, p, i, nextP, k, targets),
                          minDistance |-> distance]
                    ELSE st
         IN  IF st2.bestMatch # null THEN st2
             ELSE searchNextPagesUncapped(st2, textPages, p, i, nextP + 1, targets)

\* A lookahead that reaches one page further.
RECURSIVE searchNextPagesWide(_, _, _, _, _, _)
searchNextPagesWide(st, textPages, p, i, nextP, targets) ==
    IF nextP >= Min(p + PageWindowEnd + 1, Len(textPages)) THEN st
    ELSE LET nextPage == textPages[nextP + 1]
             searchLimit == Min(SearchLimit, Len(nextPage.items))
             k == firstTarget(nextPage, 0, searchLimit - 1, targets)
             distance == (nextP - p) * PageWeight + k
             st2 == IF k # -1 /\ distance < st.minDistance
                    THEN [bestMatch |-> matchAt(textPages, p, i, nextP, k, targets),
                          minDistance |-> distance]
                    ELSE st
         IN  IF st2.bestMatch # null THEN st2
             ELSE searchNextPagesWide(st2, textPages, p, i, nextP + 1, targets)

\* Strategy 2: the loop over nextP, from nextP on.
RECURSIVE searchNextPages(_, _, _, _, _, _)
searchNextPages(st, textPages, p, i, nextP, targets) ==
    IF nextP >= Min(p + PageWindowEnd, Len(textPages)) THEN st
    ELSE LET nextPage == textPages[nextP + 1]
             searchLimit == Min(SearchLimit, Len(nextPage.items))
             k == firstTarget(nextPage, 0, searchLimit - 1, targets)
             distance == (nextP - p) * PageWeight + k
             st2 == IF k # -1 /\ distance < st.minDistance
                    THEN [bestMatch |-> matchAt(textPages, p, i, nextP, k, targets),
                          minDistance |-> distance]
                    ELSE st
         IN  IF st2.bestMatch # null THEN st2
             ELSE searchNextPages(st2, textPages, p, i, nextP + 1, targets)

\* The body of `if (page.items[i].str === label)`.
atLabel(st, textPages, p, i, targets) ==
    LET st1 == searchSamePage(st, textPages, p, i, targets)
    IN  IF st1.bestMatch = null \/ st1.minDistance > SamePageThreshold
        THEN searchNextPages(st1, textPages, p, i, p + 1, targets)
        ELSE st1

\* The loop over i, from i on.
RECURSIVE scanItems(_, _, _, _, _, _)
scanItems(st, textPages, p, i, label, targets) ==
    LET n == nextLabel(textPages[p + 1], i, label)
    IN  IF n = -1 THEN st
        ELSE LET st2 == atLabel(st, textPages, p, n, targets)
             IN  IF st2.bestMatch # null THEN st2
                 ELSE scanItems(st2, textPages, p, n + 1, label, targets)

\* The loop over p, from p on.
RECURSIVE scanPages(_, _, _, _, _)
scanPages(st, textPages, p, label, targets) ==
    IF p >= Len(textPages) THEN st
    ELSE LET st2 == scanItems(st, textPages, p, 0, label, targets)
         IN  IF st2.bestMatch # null THEN st2
             ELSE scanPages(st2, textPages, p + 1, label, targets)

findTargetPosition(textPages, label) ==
    scanPages([bestMatch |-> null, minDistance |-> Infinity],
              textPages, 0, label, targetsFor(label)).bestMatch

(***************************************************************************)
(* Page text index, as extractTextPositions builds it                      *)
(***************************************************************************)
sQ1 == <<"Q","1">>

sR1 == <<"R","1">>

sAnswer == <<"A","n","s","w","e","r",":">>

sCompliancy == <<"C","o","m","p","l","i","a","n","c","y">>

sFiller == <<"x">>

\* n copies of v
Rep(v, n) == [k \in 1..n |-> v]

\* The n-th token (from 0) of a page laid out one token to the line, one
\* point between lines, staggered over ten columns: reading order is
\* descending y, the order extractTextPositions sorts the items into.
placeToken(str, n, fontSize) ==
    [str |-> str,
     x |-> 40 + 50 * (n % 10),
     y |-> 790 - n,
     fontSize |-> fontSize,
     width |-> (GlyphSum(str) * fontSize) \div 1000]

\* pages.push({ pageIndex: pageNum - 1, width, height, items })
textPage(pageIndex, strs) ==
    [pageIndex |-> pageIndex, width |-> 612, height |-> 792,
     items |-> [n \in 1..Len(strs) |-> placeToken(strs[n], n - 1, 10)]]

\* The text index of a document given each page's token texts.
textIndex(pageStrs) == [n \in 1..Len(pageStrs) |-> textPage(n - 1, pageStrs[n])]

(***************************************************************************)
(* findTargetPosition on its own                                           *)
(***************************************************************************)
\* Leading pages without the label: 0..MaxLead
MaxLead == 1

FindLabels == {sQ1, sR1}

\* Fillers between the label and the keyword that follows it on its page
\* (-1: no keyword follows): token distances 1, at and just over the
\* same-page threshold, and around the page weight.
SamePageGaps ==
    {-1, 0, SamePageThreshold - 1, SamePageThreshold,
     PageWeight - 1, PageWeight, PageWeight + 1}

KeywordGroups ==
    {<<sAnswer>>, <<sCompliancy>>, <<sCompliancy, sAnswer>>, <<sAnswer, sCompliancy>>}

\* A page: pre fillers, the label, and (gap # -1) gap fillers and keywords.
labelPage(label, pre, gap, kws) ==
    Rep(sFiller, pre) \o <<label>> \o
    (IF gap = -1 THEN <<>> ELSE Rep(sFiller, gap) \o kws)

\* A page: at fillers and then the keyword (at = -1: one filler only).
keywordPage(at, kw) ==
    IF at = -1 THEN <<sFiller>> ELSE Rep(sFiller, at) \o <<kw>>

\* Same page against the next page.
SamePageDocs(label) ==
    {<<labelPage(label, 1, gap, kws), keywordPage(at, kw)>> :
        gap \in SamePageGaps, kws \in KeywordGroups,
        at \in {-1, 0, 1}, kw \in {sAnswer, sCompliancy}}

\* The lookahead window: the keyword lies between..(between + 1) pages on,
\* at token 0, at the last token under the cap or at the first beyond it.
WindowDocs(label) ==
    {<<labelPage(label, 0, -1, <<>>)>> \o Rep(<<>>, between) \o
     <<keywordPage(at, kw)>> \o further :
        between \in {0, PageWindowEnd - 2, PageWindowEnd - 1},
        at \in {-1, 0, SearchLimit - 1, SearchLimit},
        kw \in {sAnswer, sCompliancy},
        further \in {<<>>, <<keywordPage(0, sAnswer)>>}}

\* The label repeated: on its first page without a keyword in reach (alone,
\* twice, or after the keyword), and again on a later page before a keyword.
RepeatDocs(label) ==
    {Rep(<<sFiller>>, lead) \o
     <<CASE shape = 1 -> <<label>>
         [] shape = 2 -> <<label, sFiller, label>>
         [] shape = 3 -> <<sAnswer, label>>
         [] shape = 4 -> <<label, sFiller, label, kw>>>> \o
     Rep(<<>>, between) \o
     <<labelPage(label, pre, 0, <<kw>>)>> :
        lead \in 0..MaxLead,
        shape \in 1..4,
        between \in {0, PageWindowEnd - 1},
        pre \in {0, SearchLimit},
        kw \in {sAnswer, sCompliancy}}

FindDocs(label) == SamePageDocs(label) \cup WindowDocs(label) \cup RepeatDocs(label)

FindInit ==
    \E label \in FindLabels :
        \E doc \in FindDocs(label) :
            find = [pc |-> "indexed", pages |-> textIndex(doc), label |-> label]

\* main: const target = findTargetPosition(parsedPages, label)
Resolve ==
    /\ find.pc = "indexed"
    /\ find' = [pc |-> "resolved", pages |-> find.pages, label |-> find.label,
                target |-> findTargetPosition(find.pages, find.label)]
    /\ UNCHANGED <<wrap, box, mainVars>>

SpecFindInit == FindInit /\ wrap = WrapIdle /\ box = BoxIdle /\ MainIdle

SpecFindNext == Resolve

SpecFind == SpecFindInit /\ [][SpecFindNext]_vars

(***************************************************************************)
(* C7, C8, C9                                                              *)
(***************************************************************************)
Resolved == find.pc = "resolved" /\ find.target # null

\* A token text the label accepts as its caption keyword.
Qualifies(label, str) ==
    \/ startsWith(toLowerCase(str), kwAnswer)
    \/ startsWith(label, <<"R">>) /\ startsWith(toLowerCase(str), kwCompliancy)

LabelPositions(page, label) ==
    {i \in 0..(Len(page.items) - 1) : item(page, i).str = label}

KeywordsAfter(page, i, label) ==
    {j \in (i + 1)..(Len(page.items) - 1) : Qualifies(label, item(page, j).str)}

Least(S) == CHOOSE n \in S : \A m \in S : n <= m

\* A keyword among the first 150 tokens of one of the 10 textPages after page p.
KeywordInReach(textPages, p, label) ==
    \E q \in (p + 1)..Min(p + 10, Len(textPages) - 1) :
        \E k \in 0..(Min(150, Len(textPages[q + 1].items)) - 1) :
            Qualifies(label, item(textPages[q + 1], k).str)

\* Page p holds the label, and a keyword for it after its first occurrence
\* or in reach on the following textPages.
Resolvable(textPages, p, label) ==
    /\ LabelPositions(textPages[p + 1], label) # {}
    /\ \/ KeywordsAfter(textPages[p + 1], Least(LabelPositions(textPages[p + 1], label)), label) # {}
       \/ KeywordInReach(textPages, p, label)

PagesWithLabel(textPages, label) ==
    {p \in 0..(Len(textPages) - 1) : LabelPositions(textPages[p + 1], label) # {}}

\* C7 (as claimed): whenever a qualifying keyword follows the label on the
\* label's own page, at any token distance, the returned match is on that
\* page, whatever later textPages hold.
C7_SamePagePreferred ==
    Resolved =>
        LET t == find.target
            page == find.pages[t.labelPageIndex + 1]
        IN  (\E i \in LabelPositions(page, find.label) :
                KeywordsAfter(page, i, find.label) # {})
            => t.pageIndex = t.labelPageIndex

\* C8 (as claimed): the match is always anchored on the lowest page that
\* holds the label.
C8_FirstLabelPage ==
    Resolved =>
        find.target.labelPageIndex = Least(PagesWithLabel(find.pages, find.label))

\* C8 (amended): the match is anchored on the lowest page that holds the
\* label and has a keyword for it (after the label's first occurrence on the
\* page, or among the first 150 tokens of one of the next 10 textPages), and on
\* the first occurrence of the label on that page; textPages that hold the label
\* without such a keyword are passed over.
C8_FirstResolvableLabelPage ==
    Resolved =>
        LET t == find.target
            S == {p \in 0..(Len(find.pages) - 1) : Resolvable(find.pages, p, find.label)}
        IN  /\ S # {}
            /\ t.labelPageIndex = Least(S)
            /\ t.labelY =
                 item(find.pages[t.labelPageIndex + 1],
                      Least(LabelPositions(find.pages[t.labelPageIndex + 1], find.label))).y

\* The label is passed over on an earlier page, where it occurs twice, and
\* matched on a later one.
C8_Witness ==
    /\ Resolved
    /\ \E p \in PagesWithLabel(find.pages, find.label) :
          /\ p < find.target.labelPageIndex
          /\ Cardinality(LabelPositions(find.pages[p + 1], find.label)) = 2

\* The token of page q the match points at (y is unique on a page).
TokenAt(textPages, q, y) ==
    textPages[q + 1].items[CHOOSE n \in 1..Len(textPages[q + 1].items) : textPages[q + 1].items[n].y = y]

\* C9: a same-page match is the first token after the label that starts
\* (lower-cased) with "answer" or, for an R label, with "compliancy",
\* whichever comes first, and keyword names the one it starts with; for a
\* label not starting with R every match is an "answer" token.
C9_KeywordSelection ==
    Resolved =>
        LET t == find.target
            page == find.pages[t.labelPageIndex + 1]
            i == Least(LabelPositions(page, find.label))
            tok == TokenAt(find.pages, t.pageIndex, t.y)
        IN  /\ t.pageIndex = t.labelPageIndex =>
                /\ KeywordsAfter(page, i, find.label) # {}
                /\ tok = item(page, Least(KeywordsAfter(page, i, find.label)))
            /\ t.x = tok.x /\ t.width = tok.width /\ t.fontSize = tok.fontSize
            /\ t.keyword \in {kwAnswer, kwCompliancy}
            /\ startsWith(toLowerCase(tok.str), t.keyword)
            /\ ~startsWith(find.label, <<"R">>) => t.keyword = kwAnswer

\* An R label is matched on its own page to an "Answer" token that comes
\* before a "Compliancy" token.
C9_Witness ==
    /\ Resolved
    /\ startsWith(find.label, <<"R">>)
    /\ find.target.pageIndex = find.target.labelPageIndex
    /\ find.target.keyword = kwAnswer
    /\ \E n \in 1..Len(find.pages[find.target.pageIndex + 1].items) :
          LET tok == find.pages[find.target.pageIndex + 1].items[n]
          IN  tok.y < find.target.y /\ startsWith(toLowerCase(tok.str), kwCompliancy)

(***************************************************************************)
(* Box bound estimator: findBoxBottom                                      *)
(***************************************************************************)
\* const minBoxHeight = 35
minBoxHeight == 35

\* const searchThreshold = 12
searchThreshold == 12

\* const horizontalTolerance = 150
horizontalTolerance == 150

\* const isLeftAligned = it.x < keywordX + 50
leftAlignedBand == 50

\* return Math.max(nextContentY + 12, ...)
contentClearance == 12

\* return Math.max(keywordY - minBoxHeight, 45)
pageFloor == 45

Abs(n) == IF n < 0 THEN -n ELSE n

\* The items the loop lets update nextContentY.
contentBelow(items, keywordY, keywordX) ==
    {n \in 1..Len(items) :
        LET it == items[n]
            verticallyBelow == it.y < keywordY - searchThreshold
            hasContent == Len(trim(it.str)) > 0
            horizontallyAligned == Abs(it.x - keywordX) < horizontalTolerance
            isLeftAligned == it.x < keywordX + leftAlignedBand
        IN  verticallyBelow /\ hasContent /\ (horizontallyAligned \/ isLeftAligned)}

\* A findBoxBottom that takes the lower of the two bounds.
findBoxBottomLower(textPages, pageIndex, keywordY, keywordX) ==
    LET items == textPages[pageIndex + 1].items
        below == contentBelow(items, keywordY, keywordX)
    IN  IF below # {}
        THEN Min((CHOOSE y \in {items[n].y : n \in below} :
                     \A n \in below : items[n].y <= y) + contentClearance,
                 keywordY - minBoxHeight)
        ELSE Min(keywordY - minBoxHeight, pageFloor)

findBoxBottom(textPages, pageIndex, keywordY, keywordX) ==
    LET items == textPages[pageIndex + 1].items
        below == contentBelow(items, keywordY, keywordX)
        \* the loop keeps the greatest y
        nextContentY == CHOOSE y \in {items[n].y : n \in below} :
                            \A n \in below : items[n].y <= y
    IN  IF below # {}
        THEN Max(nextContentY + contentClearance, keywordY - minBoxHeight)
        ELSE Max(keywordY - minBoxHeight, pageFloor)

(***************************************************************************)
(* findBoxBottom on its own: a page that holds the keyword token and up to *)
(* MaxNearby further tokens, above and below it.                           *)
(***************************************************************************)
MaxNearby == 2

\* Keyword baselines: mid page, and close to the page bottom.
KeywordYs == {700, 79, 40}

KeywordXs == {50, 300}

\* Offsets of the further tokens below the keyword baseline (negative:
\* above it), around the search threshold and the box heights.
NearbyDrops == {-20, 12, 13, 41, 42, 48, 200}

\* x of the further tokens relative to the keyword's: left of it, and at the
\* edges of the left-aligned band and of the horizontal tolerance.
NearbyShifts == {-10, 49, 50, 149, 150}

NearbyStrs == {sFiller, <<>>}

\* The page's items in reading order: the tokens above the keyword, the
\* keyword, the tokens below it.
RECURSIVE boxItems(_, _, _, _)
boxItems(drops, tokenAt, kwY, kwX) ==
    IF drops = {} THEN <<>>
    ELSE LET d == CHOOSE e \in drops : \A f \in drops : e <= f
             tok == IF d = 0
                    THEN [str |-> sAnswer, x |-> kwX, y |-> kwY, fontSize |-> 10, width |-> 33]
                    ELSE [str |-> tokenAt[d].str, x |-> kwX + tokenAt[d].dx, y |-> kwY - d,
                          fontSize |-> 10, width |-> 5]
         IN  <<tok>> \o boxItems(drops \ {d}, tokenAt, kwY, kwX)

BoxInit ==
    \E kwY \in KeywordYs, kwX \in KeywordXs :
        \E drops \in {D \in SUBSET NearbyDrops : Cardinality(D) <= MaxNearby} :
            \E tokenAt \in [drops -> [str : NearbyStrs, dx : NearbyShifts]] :
                box = [pc |-> "located",
                       parsedPages |-> <<[pageIndex |-> 0, width |-> 612, height |-> 792,
                                          items |-> boxItems(drops \cup {0}, tokenAt, kwY, kwX)]>>,
                       kwY |-> kwY, kwX |-> kwX]

\* writeAnswerInBox: let boxBottom = findBoxBottom(parsedPages, pageIndex, kwY, kwX)
BoundBox ==
    /\ box.pc = "located"
    /\ box' = [pc |-> "bounded", parsedPages |-> box.parsedPages,
               kwY |-> box.kwY, kwX |-> box.kwX,
               boxBottom |-> findBoxBottom(box.parsedPages, 0, box.kwY, box.kwX)]
    /\ UNCHANGED <<wrap, find, mainVars>>

SpecBoxInit == BoxInit /\ wrap = WrapIdle /\ find = FindIdle /\ MainIdle

SpecBoxNext == BoundBox

SpecBox == SpecBoxInit /\ [][SpecBoxNext]_vars

(***************************************************************************)
(* C5                                                                      *)
(***************************************************************************)
\* C5 (as claimed): the box bottom is never above keywordY - minimumBoxHeight.
C5_BottomNeverAboveMinimum ==
    box.pc = "bounded" => box.boxBottom <= box.kwY - 35

(***************************************************************************)
(* Text flow writer: writeAnswerInBox                                      *)
(*                                                                         *)
(* A page handle is a page id (the original pages are 1..n in document     *)
(* order, an inserted page gets the next free id).  A drawing call is      *)
(* recorded as a record naming the page id it draws on; x is not recorded. *)
(***************************************************************************)
\* const baseFontSize = 8
baseFontSize == 8

\* const firstLinePadding = 4
firstLinePadding == 4

\* const rightMargin = 40
rightMargin == 40

\* const maxWidth = pageW - answerStartX - rightMargin - 45
extraRightMargin == 45

\* if (calculatedHeight < 30)
minUsableHeight == 30

\* boxBottom = kwY - 50
forcedBoxHeight == 50

\* const verticalOffset = 1.5, in tenths of a point
verticalOffset10 == 15

\* const availableHeight = boxHeight - 10
boxPadding == 10

\* useFontSize * 1.3, in tenths of a point
lineHeight10Of(fontSize) == fontSize * 13

sAnswerCaption == <<"A","n","s","w","e","r">>

sCompliancyCaption == <<"C","o","m","p","l","i","a","n","c","y">>

\* page.drawText(text, { x, y, size, font, color })
drawText(pid, text, y10, size) ==
    [op |-> "drawText", page |-> pid, text |-> text, y10 |-> y10, size |-> size]

Reverse(s) == [n \in 1..Len(s) |-> s[Len(s) + 1 - n]]

\* A fill policy that defers from the second line on.
shouldContinueEarly(allLines, hasImages) == Len(allLines) > 1 \/ hasImages

\* A fill policy that defers only from the fourth line on.
shouldContinueLate(allLines, hasImages) == Len(allLines) > 3 \/ hasImages

\* const shouldContinue = allLines.length > 2 || hasImages
shouldContinue(allLines, hasImages) == Len(allLines) > 2 \/ hasImages

\* The loop over linesToWrite from line i (0-based) on, with the cursor at
\* y10: the drawing calls, the number of lines written, and the lines the
\* early exit hands back (unshift puts each in front of the one before).
RECURSIVE writeLines(_, _, _, _, _, _, _)
writeLines(linesToWrite, i, y10, lh10, boxBottom, pid, size) ==
    IF i >= Len(linesToWrite)
    THEN [draws |-> <<>>, linesWritten |-> 0, unshifted |-> <<>>]
    ELSE LET draw == drawText(pid, linesToWrite[i + 1], y10, size)
             yNext == y10 - lh10
         IN  IF i < Len(linesToWrite) - 1 /\ yNext - lh10 < boxBottom * 10
             THEN [draws |-> <<draw>>, linesWritten |-> 1,
                   unshifted |-> Reverse(SubSeq(linesToWrite, i + 2, Len(linesToWrite)))]
             ELSE LET rest == writeLines(linesToWrite, i + 1, yNext, lh10, boxBottom, pid, size)
                  IN  [draws |-> <<draw>> \o rest.draws,
                       linesWritten |-> 1 + rest.linesWritten,
                       unshifted |-> rest.unshifted]

\* A box bottom taken from findBoxBottom as it comes.
usableBoxBottomAsFound(kwY, found) == found

\* if (calculatedHeight < 30) boxBottom = kwY - 50
usableBoxBottom(kwY, found) ==
    IF kwY - found < minUsableHeight THEN kwY - forcedBoxHeight ELSE found

\* The page of the label, not of the keyword.
pageOfLabel(drawPages, target) == drawPages[target.labelPageIndex + 1]

\* const page = pages[pageIndex]
pageOf(drawPages, target) == drawPages[target.pageIndex + 1]

\* The result: contData is the returned object, draws the drawing calls
\* made, allLines the wrapped lines (a local the caller does not see).
writeAnswerInBox(drawPages, textPages, sizes, row, target) ==
    LET pageIndex == target.pageIndex
        kwX == target.x
        kwY == target.y
        pageW == sizes[pageIndex + 1].width
        pageH == sizes[pageIndex + 1].height
        useFontSize == IF target.fontSize # 0 THEN target.fontSize ELSE baseFontSize
        useLineHeight10 == lineHeight10Of(useFontSize)
        page == pageOf(drawPages, target)
        keywordToPrint == IF target.keyword = kwAnswer THEN sAnswerCaption
                          ELSE sCompliancyCaption
        keyWidth1000 == widthOfTextAtSize1000(keywordToPrint, useFontSize)
        answerStartX1000 == kwX * 1000 + keyWidth1000 + firstLinePadding * 1000
        maxWidth1000 == pageW * 1000 - answerStartX1000 - rightMargin * 1000
                        - extraRightMargin * 1000
        found == findBoxBottom(textPages, pageIndex, kwY, kwX)
        boxBottom == usableBoxBottom(kwY, found)
        boxHeight == kwY - boxBottom
        clear == drawText(page, <<" ">>, kwY * 10 + verticalOffset10, useFontSize)
        allLines == wrapText(row.Answer, useFontSize, maxWidth1000)
        hasImages == Len(row.images) > 0
        availableHeight == boxHeight - boxPadding
        maxLinesInBox == Max(1, (availableHeight * 10) \div useLineHeight10)
        linesToWrite == IF shouldContinue(allLines, hasImages)
                        THEN slice(allLines, 0, Min(1, maxLinesInBox))
                        ELSE slice(allLines, 0, Min(Len(allLines), maxLinesInBox))
        remaining0 == IF shouldContinue(allLines, hasImages)
                      THEN slice(allLines, Len(linesToWrite), Len(allLines))
                      ELSE <<>>
        written == writeLines(linesToWrite, 0, kwY * 10 + verticalOffset10,
                              useLineHeight10, boxBottom, page, useFontSize)
    IN  [contData |->
            [label |-> row.Label,
             remainingLines |-> written.unshifted \o remaining0,
             images |-> row.images,
             fontSize |-> useFontSize,
             lineHeight10 |-> useLineHeight10,
             pageIndex |-> pageIndex,
             pageW |-> pageW,
             pageH |-> pageH,
             linesWritten |-> written.linesWritten,
             totalLines |-> Len(allLines),
             labelPageIndex |-> target.labelPageIndex],
         draws |-> <<clear>> \o written.draws,
         allLines |-> allLines,
         boxBottom |-> boxBottom,
         maxLinesInBox |-> maxLinesInBox]

(***************************************************************************)
(* Image embedder and continuation page manager: the operators             *)
(***************************************************************************)
\* currentPage = null
NoPage == 0

\* const needNewPage = currentPage === null || currentY < 100
newPageThreshold == 100

\* currentY = cont.pageH - 70
topMargin == 70

\* const pageBottomMargin = embeddedImages.length > 0 ? 320 : 50
imageBottomMargin == 320

textBottomMargin == 50

\* currentY -= 30 before an image, currentY = imgY - 30 after it
imageGap == 30

\* const maxImgWidth = cont.pageW - 100
imageSideMargin == 100

\* const maxImgHeight = 240
maxImgHeight == 240

\* const imgY = Math.max(currentY - imgDims.height, 50)
imageFloor == 50

\* typeof pdfDoc.insertPage === "function": pdf-lib's PDFDocument has it.
hasInsertPage == TRUE

\* Array.prototype.splice(index, 0, v)
splice(s, index, v) ==
    SubSeq(s, 1, Min(index, Len(s))) \o <<v>> \o SubSeq(s, Min(index, Len(s)) + 1, Len(s))

\* pdfDoc.insertPage(pageIndex + 1, size) / pdfDoc.addPage(size): the
\* document's page order with the new page pid in it.
insertBlankAfter(doc, pageIndex, pid) ==
    IF hasInsertPage THEN splice(doc, pageIndex + 1, pid) ELSE Append(doc, pid)

\* A pageSizes.splice that inserts before the page, not after it.
insertPageSizeBefore(sizes, insertAt, job, pid) ==
    splice(sizes, insertAt, [width |-> job.pageW, height |-> job.pageH, pid |-> pid])

\* pages.splice(insertAt + 1, 0, currentPage)
insertPage(drawPages, insertAt, pid) == splice(drawPages, insertAt + 1, pid)

\* pageSizes.splice(insertAt + 1, 0, { width: cont.pageW, height: cont.pageH })
insertPageSize(sizes, insertAt, job, pid) ==
    splice(sizes, insertAt + 1, [width |-> job.pageW, height |-> job.pageH, pid |-> pid])

\* parsedPages.splice(insertAt + 1, 0, { pageIndex: insertAt + 1, width, height, items: [] })
insertParsedPage(textPages, insertAt, job, pid) ==
    splice(textPages, insertAt + 1,
           [pageIndex |-> insertAt + 1, width |-> job.pageW, height |-> job.pageH,
            items |-> <<>>, pid |-> pid])

\* An embedder that takes every image, whatever its format or state.
embeddableAlways(img) == TRUE

\* embedPng / embedJpg succeed on a valid buffer and throw on a corrupt one.
embeddable(img) == img.extension \in {"png", "jpeg", "jpg"} /\ img.valid

embedImages(images) == SelectSeq(images, embeddable)

\* img.scale(1), or img.scale(Math.min(maxImgWidth / w, maxImgHeight / h))
\* when the image is larger than either bound; in tenths of a point.
scaledDims10(img, pageW) ==
    LET maxImgWidth == pageW - imageSideMargin
    IN  IF img.width > maxImgWidth \/ img.height > maxImgHeight
        THEN IF maxImgWidth * img.height <= maxImgHeight * img.width
             THEN [width10 |-> maxImgWidth * 10,
                   height10 |-> (img.height * maxImgWidth * 10) \div img.width]
             ELSE [width10 |-> (img.width * maxImgHeight * 10) \div img.height,
                   height10 |-> maxImgHeight * 10]
        ELSE [width10 |-> img.width * 10, height10 |-> img.height * 10]

\* currentPage.drawImage(img, { x: 50, y: imgY, width, height })
drawImage(pid, img, y10, dims) ==
    [op |-> "drawImage", page |-> pid, image |-> img, y10 |-> y10,
     width10 |-> dims.width10, height10 |-> dims.height10]

\* `(Continuation of ${cont.label})`
continuationHeader(label) ==
    <<"(","C","o","n","t","i","n","u","a","t","i","o","n"," ","o","f"," ">> \o label \o <<")">>

\* The jobs that carry something, per source page, in queue order.
hasContent(job) == Len(job.remainingLines) # 0 \/ Len(job.images) # 0

groupOf(jobs, sourcePage) ==
    LET inGroup(job) == hasContent(job) /\ job.pageIndex = sourcePage
    IN  SelectSeq(jobs, inGroup)

\* Array.from(pageGroups.keys()).sort((a, b) => a - b)
RECURSIVE ascending(_)
ascending(S) ==
    IF S = {} THEN <<>>
    ELSE LET least == CHOOSE n \in S : \A m \in S : n <= m
         IN  <<least>> \o ascending(S \ {least})

sortedPagesOf(jobs) ==
    ascending({jobs[n].pageIndex : n \in {m \in 1..Len(jobs) : hasContent(jobs[m])}})

\* An offset that is not advanced when a page is inserted.
nextInsertOffsetKept(globalInsertOffset) == globalInsertOffset

\* globalInsertOffset += 1
nextInsertOffset(globalInsertOffset) == globalInsertOffset + 1

\* An insertion point that ignores the pages inserted so far.
adjustedInsertAtStale(sourcePage, globalInsertOffset) == sourcePage

\* const adjustedInsertAt = sourcePage + globalInsertOffset
adjustedInsertAt(sourcePage, globalInsertOffset) == sourcePage + globalInsertOffset

\* A loop over linesToWriteHere that stops one line early.
drawLinesButLast(pid, lines, y10, lh10, size) ==
    [n \in 1..(Len(lines) - 1) |-> drawText(pid, lines[n], y10 - (n - 1) * lh10, size)]

\* The lines drawn top-down from y10, one line height apart.
drawLines(pid, lines, y10, lh10, size) ==
    [n \in 1..Len(lines) |-> drawText(pid, lines[n], y10 - (n - 1) * lh10, size)]

(***************************************************************************)
(* main (continuation-page variant): the documents and rows it is run on   *)
(***************************************************************************)
\* main reads at most MaxRows rows
MaxRows == 2

\* createContinuationPages may insert at most MaxInserted pages
MaxInserted == 8

sQ9 == <<"Q","9">>

tokenAt(str, x, y, fontSize) ==
    [str |-> str, x |-> x, y |-> y, fontSize |-> fontSize,
     width |-> (GlyphSum(str) * fontSize) \div 1000]

\* Both labels on page 0: Q1's keyword leaves room for a line of text, R1's
\* sits at the right edge (every word wraps) with a token 20pt below it.
DocSamePage ==
    <<[width |-> 612, height |-> 792,
       items |-> <<tokenAt(sQ1, 50, 700, 10), tokenAt(sAnswer, 90, 700, 10),
                   tokenAt(sR1, 50, 600, 10), tokenAt(sCompliancy, 500, 600, 10),
                   tokenAt(sFiller, 50, 580, 10)>>],
      [width |-> 612, height |-> 792,
       items |-> <<tokenAt(sFiller, 50, 700, 10)>>]>>

\* R1 on page 0 with its keyword on page 1 (8pt, a token 50pt below it),
\* Q1 and its keyword on page 2, both keywords at the right edge.
DocCrossPage ==
    <<[width |-> 612, height |-> 792,
       items |-> <<tokenAt(sR1, 50, 700, 10)>>],
      [width |-> 612, height |-> 792,
       items |-> <<tokenAt(sCompliancy, 500, 700, 8), tokenAt(sFiller, 50, 650, 10)>>],
      [width |-> 612, height |-> 792,
       items |-> <<tokenAt(sQ1, 50, 700, 10), tokenAt(sAnswer, 500, 700, 10)>>]>>

\* A single short page (150pt high).
DocShortPage ==
    <<[width |-> 612, height |-> 150,
       items |-> <<tokenAt(sQ1, 50, 120, 10), tokenAt(sAnswer, 500, 120, 10),
                   tokenAt(sR1, 50, 60, 10), tokenAt(sCompliancy, 90, 60, 10)>>]>>

\* A single page 160pt high: a continuation page of this size has room for
\* one line at 10pt.
DocOneLinePage ==
    <<[width |-> 612, height |-> 160,
       items |-> <<tokenAt(sQ1, 50, 130, 10), tokenAt(sAnswer, 500, 130, 10)>>]>>

MainDocs == {DocSamePage, DocCrossPage, DocShortPage, DocOneLinePage}

imgPng == [extension |-> "png", width |-> 100, height |-> 80, valid |-> TRUE]

imgJpgLarge == [extension |-> "jpg", width |-> 1024, height |-> 960, valid |-> TRUE]

imgGif == [extension |-> "gif", width |-> 100, height |-> 80, valid |-> TRUE]

\* A png whose buffer embedPng rejects.
imgPngCorrupt == [extension |-> "png", width |-> 100, height |-> 80, valid |-> FALSE]

ImageLists == {<<>>, <<imgPng>>, <<imgGif>>, <<imgGif, imgJpgLarge, imgPngCorrupt, imgPng>>}

\* Cleaned answers of 0, 2 and 3 words.
Answers == {<<>>, <<"a"," ","a">>, <<"a"," ","a"," ","W">>}

\* The rows loadExcelWithImages can deliver: the labels of the document
\* with every answer and image list, a label the document does not hold
\* (with and without content), and a row without a label.
Rows ==
    [Label : {sQ1, sR1}, Answer : Answers, images : ImageLists]
    \cup [Label : {sQ9}, Answer : {<<>>, <<"a"," ","a">>}, images : {<<>>}]
    \cup [Label : {<<>>}, Answer : {<<"a"," ","a">>}, images : {<<>>}]

\* The page ids of a document of n pages, in document order.
pageIds(n) == [k \in 1..n |-> k]

MainInit ==
    \E doc \in MainDocs :
        /\ main = [pc |-> "rows", rowsRead |-> 0, row |-> null, target |-> null,
                   contData |-> null, allLines |-> <<>>, original |-> Len(doc)]
        /\ parsedPages = [k \in 1..Len(doc) |->
                            [pageIndex |-> k - 1, width |-> doc[k].width,
                             height |-> doc[k].height, items |-> doc[k].items, pid |-> k]]
        /\ pdfDoc = pageIds(Len(doc))
        /\ pages = pageIds(Len(doc))
        /\ pageSizes = [k \in 1..Len(doc) |->
                            [width |-> doc[k].width, height |-> doc[k].height, pid |-> k]]
        /\ continuations = <<>>
        /\ skippedItems = <<>> /\ skippedCount = 0 /\ processedCount = 0
        /\ cont = [at |-> "idle"]
        /\ drawn = <<>>

(***************************************************************************)
(* main: one iteration of `for (const row of items)`                       *)
(***************************************************************************)
\* A skip that is counted but not reported.
reportSkippedSilently(skipped, label) == skipped

\* skippedItems.push(label)
reportSkipped(skipped, label) == Append(skipped, label)

ProcessRow ==
    /\ main.pc = "rows"
    /\ main.rowsRead < MaxRows
    /\ \E row \in Rows :
        LET label == trim(row.Label)
            answerText == row.Answer
            target == findTargetPosition(parsedPages, label)
            result == writeAnswerInBox(pages, parsedPages, pageSizes, row, target)
            contData == result.contData
        IN  IF label = <<>> \/ (answerText = <<>> /\ Len(row.images) = 0)
            THEN /\ skippedCount' = skippedCount + 1
                 /\ main' = [main EXCEPT !.rowsRead = @ + 1, !.row = row, !.target = null,
                                         !.contData = null, !.allLines = <<>>]
                 /\ UNCHANGED <<skippedItems, processedCount, continuations, drawn>>
            ELSE IF target = null
            THEN /\ skippedItems' = reportSkipped(skippedItems, label)
                 /\ skippedCount' = skippedCount + 1
                 /\ main' = [main EXCEPT !.rowsRead = @ + 1, !.row = row, !.target = null,
                                         !.contData = null, !.allLines = <<>>]
                 /\ UNCHANGED <<processedCount, continuations, drawn>>
            ELSE /\ drawn' = drawn \o result.draws
                 /\ continuations' =
                        IF Len(contData.remainingLines) > 0 \/ Len(contData.images) > 0
                        THEN Append(continuations, contData)
                        ELSE continuations
                 /\ processedCount' = processedCount + 1
                 /\ main' = [main EXCEPT !.rowsRead = @ + 1, !.row = row, !.target = target,
                                         !.contData = contData, !.allLines = result.allLines]
                 /\ UNCHANGED <<skippedItems, skippedCount>>
    /\ UNCHANGED <<parsedPages, pages, pageSizes, pdfDoc, cont>>
    /\ UNCHANGED <<wrap, find, box>>

\* The rows are exhausted: createContinuationPages is called if a job is
\* queued (it builds pageGroups and sortedPages), and the document is saved.
EndRows ==
    /\ main.pc = "rows"
    /\ IF Len(continuations) > 0
       THEN /\ main' = [main EXCEPT !.pc = "continuations"]
            /\ cont' = [at |-> "group",
                        sortedPages |-> sortedPagesOf(continuations),
                        g |-> 1, c |-> 1,
                        globalInsertOffset |-> 0,
                        currentPage |-> NoPage, currentY10 |-> 0, insertAt |-> 0,
                        embeddedImages |-> <<>>, remainingLines |-> <<>>,
                        created |-> <<>>]
       ELSE /\ main' = [main EXCEPT !.pc = "save"]
            /\ UNCHANGED cont
    /\ UNCHANGED <<parsedPages, pages, pageSizes, pdfDoc, continuations,
                   skippedItems, skippedCount, processedCount, drawn>>
    /\ UNCHANGED <<wrap, find, box>>

(***************************************************************************)
(* createContinuationPages, a loop iteration at a time                     *)
(***************************************************************************)
\* for (const sourcePage of sortedPages): the next group, or the return.
BeginGroup ==
    /\ main.pc = "continuations"
    /\ cont.at = "group"
    /\ IF cont.g > Len(cont.sortedPages)
       THEN /\ cont' = [cont EXCEPT !.at = "returned"]
            /\ main' = [main EXCEPT !.pc = "save"]
       ELSE /\ cont' = [cont EXCEPT
                          !.at = "job", !.c = 1,
                          !.currentPage = NoPage, !.currentY10 = 0,
                          !.insertAt = adjustedInsertAt(cont.sortedPages[cont.g],
                                                        cont.globalInsertOffset)]
            /\ UNCHANGED main
    /\ UNCHANGED <<parsedPages, pages, pageSizes, pdfDoc, continuations,
                   skippedItems, skippedCount, processedCount, drawn>>
    /\ UNCHANGED <<wrap, find, box>>

\* for (const cont of pageConts): the next job of the group up to its while
\* loop (embedImages, the copy of remainingLines), or the end of the group.
BeginJob ==
    /\ main.pc = "continuations"
    /\ cont.at = "job"
    /\ LET pageConts == groupOf(continuations, cont.sortedPages[cont.g])
       IN  IF cont.c > Len(pageConts)
           THEN cont' = [cont EXCEPT !.at = "group", !.g = @ + 1, !.currentPage = NoPage]
           ELSE LET job == pageConts[cont.c]
                    embeddedImages == embedImages(job.images)
                IN  IF Len(job.remainingLines) > 0 \/ Len(embeddedImages) > 0
                    THEN cont' = [cont EXCEPT !.at = "while",
                                              !.embeddedImages = embeddedImages,
                                              !.remainingLines = job.remainingLines]
                    ELSE cont' = [cont EXCEPT !.c = @ + 1,
                                              !.embeddedImages = embeddedImages,
                                              !.remainingLines = job.remainingLines]
    /\ UNCHANGED <<main, parsedPages, pages, pageSizes, pdfDoc, continuations,
                   skippedItems, skippedCount, processedCount, drawn>>
    /\ UNCHANGED <<wrap, find, box>>

\* One iteration of `while (remainingLines.length > 0 || embeddedImages.length > 0)`.
WhileStep ==
    /\ main.pc = "continuations"
    /\ cont.at = "while"
    /\ LET sourcePage == cont.sortedPages[cont.g]
           job == groupOf(continuations, sourcePage)[cont.c]
           lh10 == job.lineHeight10
           needNewPage == cont.currentPage = NoPage
                          \/ cont.currentY10 < newPageThreshold * 10
           pid == Len(pdfDoc) + 1
           currentPage == IF needNewPage THEN pid ELSE cont.currentPage
           yTop == IF needNewPage THEN (job.pageH - topMargin) * 10 ELSE cont.currentY10
           header == drawText(currentPage, continuationHeader(job.label), yTop, job.fontSize)
           yText == yTop - lh10 * 2
           pageBottomMargin == IF Len(cont.embeddedImages) > 0
                               THEN imageBottomMargin ELSE textBottomMargin
           availableSpace10 == yText - pageBottomMargin * 10
           maxLinesOnPage == availableSpace10 \div lh10
           \* remainingLines.splice(0, maxLinesOnPage)
           taken == Max(0, Min(maxLinesOnPage, Len(cont.remainingLines)))
           linesToWriteHere == SubSeq(cont.remainingLines, 1, taken)
           remainingLines == SubSeq(cont.remainingLines, taken + 1, Len(cont.remainingLines))
           yAfterText == yText - taken * lh10
           hasImage == Len(cont.embeddedImages) > 0
           img == Head(cont.embeddedImages)
           imgDims == scaledDims10(img, job.pageW)
           imgY10 == Max(yAfterText - imageGap * 10 - imgDims.height10, imageFloor * 10)
           embeddedImages == IF hasImage THEN Tail(cont.embeddedImages)
                             ELSE cont.embeddedImages
           yEnd == (IF hasImage THEN imgY10 - imageGap * 10 ELSE yAfterText) - lh10
           finished == Len(remainingLines) = 0 /\ Len(embeddedImages) = 0
       IN  /\ needNewPage => Len(cont.created) < MaxInserted
           /\ IF needNewPage
              THEN /\ pdfDoc' = insertBlankAfter(pdfDoc, cont.insertAt, pid)
                   /\ pages' = insertPage(pages, cont.insertAt, pid)
                   /\ pageSizes' = insertPageSize(pageSizes, cont.insertAt, job, pid)
                   /\ parsedPages' = insertParsedPage(parsedPages, cont.insertAt, job, pid)
              ELSE UNCHANGED <<pdfDoc, pages, pageSizes, parsedPages>>
           /\ drawn' = drawn \o <<header>>
                       \o drawLines(currentPage, linesToWriteHere, yText, lh10, job.fontSize)
                       \o (IF hasImage
                           THEN <<drawImage(currentPage, img, imgY10, imgDims)>>
                           ELSE <<>>)
           /\ cont' = [cont EXCEPT
                          !.at = IF finished THEN "job" ELSE "while",
                          !.c = IF finished THEN @ + 1 ELSE @,
                          !.currentPage = currentPage,
                          !.currentY10 = yEnd,
                          !.insertAt = IF needNewPage THEN @ + 1 ELSE @,
                          !.globalInsertOffset = IF needNewPage THEN nextInsertOffset(@) ELSE @,
                          !.embeddedImages = embeddedImages,
                          !.remainingLines = remainingLines,
                          !.created = IF needNewPage
                                      THEN Append(@, [pid |-> pid, sourcePage |-> sourcePage,
                                                      label |-> job.label])
                                      ELSE @]
    /\ UNCHANGED <<main, continuations, skippedItems, skippedCount, processedCount>>
    /\ UNCHANGED <<wrap, find, box>>

\* const outBytes = await pdfDoc.save()
Save ==
    /\ main.pc = "save"
    /\ main' = [main EXCEPT !.pc = "done"]
    /\ UNCHANGED <<parsedPages, pages, pageSizes, pdfDoc, continuations,
                   skippedItems, skippedCount, processedCount, cont, drawn>>
    /\ UNCHANGED <<wrap, find, box>>

(***************************************************************************)
(* The token-shifting variant: findTargetPosition, writeAnswerWithFlow and *)
(* its main                                                                *)
(***************************************************************************)
\* const lineHeight = 10
flowLineHeight == 10

\* const bottomMargin = 40
flowBottomMargin == 40

\* const firstLinePadding = 10
flowFirstLinePadding == 10

\* let y = pageH - 80
flowTopMargin == 80

sContinuedContent ==
    <<"(","c","o","n","t","i","n","u","e","d"," ","c","o","n","t","e","n","t",")">>

\* `(continued: ${row.Label})`
continuedHeader(label) ==
    <<"(","c","o","n","t","i","n","u","e","d",":"," ">> \o label \o <<")">>

flowTargetsFor(label) ==
    IF startsWith(label, <<"R">>) THEN <<kwCompliancy, kwAnswer>> ELSE <<kwAnswer>>

\* targets.find((t) => word.startsWith(t))
RECURSIVE flowFindTarget(_, _, _)
flowFindTarget(targets, word, t) ==
    IF t > Len(targets) THEN null
    ELSE IF startsWith(word, targets[t]) THEN targets[t]
    ELSE flowFindTarget(targets, word, t + 1)

\* The first item of a page, from 0-based index j on, that starts with a target.
RECURSIVE flowScan(_, _, _, _)
flowScan(textPages, p, j, targets) ==
    IF j >= Len(textPages[p + 1].items) THEN null
    ELSE LET it == item(textPages[p + 1], j)
             keyword == flowFindTarget(targets, toLowerCase(it.str), 1)
         IN  IF keyword # null
             THEN [pageIndex |-> p, x |-> it.x, y |-> it.y, keyword |-> keyword, itemIndex |-> j]
             ELSE flowScan(textPages, p, j + 1, targets)

\* page.items.findIndex((it) => it.str === label), from index j on
RECURSIVE flowFindIndex(_, _, _)
flowFindIndex(page, label, j) ==
    IF j >= Len(page.items) THEN -1
    ELSE IF item(page, j).str = label THEN j
    ELSE flowFindIndex(page, label, j + 1)

RECURSIVE flowFindFrom(_, _, _)
flowFindFrom(textPages, label, p) ==
    IF p >= Len(textPages) THEN null
    ELSE LET idxLabel == flowFindIndex(textPages[p + 1], label, 0)
             same == flowScan(textPages, p, idxLabel, flowTargetsFor(label))
             next == flowScan(textPages, p + 1, 0, flowTargetsFor(label))
         IN  IF idxLabel >= 0 /\ same # null THEN same
             ELSE IF idxLabel >= 0 /\ p + 1 < Len(textPages) /\ next # null THEN next
             ELSE flowFindFrom(textPages, label, p + 1)

findTargetPositionFlow(textPages, label) == flowFindFrom(textPages, label, 0)

\* writeLinesOnPage: one drawText a line, lineHeight apart
RECURSIVE writeLinesOnPage(_, _, _, _)
writeLinesOnPage(pid, lines, i, y) ==
    IF i >= Len(lines) THEN <<>>
    ELSE <<drawText(pid, lines[i + 1], y * 10, baseFontSize)>>
         \o writeLinesOnPage(pid, lines, i + 1, y - flowLineHeight)

\* for (const it of overflow) newPage.drawText(it.str, ...)
RECURSIVE drawOverflow(_, _, _, _)
drawOverflow(pid, overflow, i, y) ==
    IF i >= Len(overflow) THEN <<>>
    ELSE <<drawText(pid, overflow[i + 1].str, y * 10,
                    IF overflow[i + 1].fontSize # 0 THEN overflow[i + 1].fontSize
                    ELSE baseFontSize)>>
         \o drawOverflow(pid, overflow, i + 1, y - flowLineHeight)

\* items.filter(...) for the items strictly below y
RECURSIVE itemsBelowY(_, _)
itemsBelowY(items, y) ==
    IF items = <<>> THEN <<>>
    ELSE (IF Head(items).y < y THEN <<Head(items)>> ELSE <<>>) \o itemsBelowY(Tail(items), y)

\* pages.splice(pageIndex + 1, 0, newPage) and the two splices after it
flowInsertAt(pageIndex) == pageIndex + 1

\* writeAnswerWithFlow: the lists and the drawing calls it leaves behind.
writeAnswerWithFlow(doc, textPages, drawPages, sizes, row, target) ==
    LET pageIndex == target.pageIndex
        kwX == target.x
        kwY == target.y
        pageW == sizes[pageIndex + 1].width
        pageH == sizes[pageIndex + 1].height
        keyPrinted == IF target.keyword = kwAnswer THEN sAnswerCaption
                      ELSE sCompliancyCaption
        keyWidth1000 == widthOfTextAtSize1000(keyPrinted, baseFontSize)
        answerXFirst1000 == kwX * 1000 + keyWidth1000 + flowFirstLinePadding * 1000
        maxWidth1000 == pageW * 1000 - answerXFirst1000 - rightMargin * 1000
        allLines == wrapText(trim(row.Answer), baseFontSize, maxWidth1000)
        page == drawPages[pageIndex + 1]
        parsedPage == textPages[pageIndex + 1]
        neededHeight == Len(allLines) * flowLineHeight
        available == kwY - flowBottomMargin
        extraNeeded == neededHeight - available
        shifted == \E n \in 1..Len(parsedPage.items) : parsedPage.items[n].y < kwY
        shiftedItems == [n \in 1..Len(parsedPage.items) |->
                            IF parsedPage.items[n].y < kwY
                            THEN [parsedPage.items[n] EXCEPT !.y = @ - extraNeeded]
                            ELSE parsedPage.items[n]]
        \* the items that were below the keyword, after the shift
        movedBelow == [n \in 1..Len(itemsBelowY(parsedPage.items, kwY)) |->
                         [itemsBelowY(parsedPage.items, kwY)[n] EXCEPT !.y = @ - extraNeeded]]
        overflow == itemsBelowY(movedBelow, flowBottomMargin)
        shiftedPages == [textPages EXCEPT ![pageIndex + 1].items = shiftedItems]
        pid == Len(doc) + 1
        job == [pageW |-> pageW, pageH |-> pageH]
        insertAt == flowInsertAt(pageIndex)
        inserts == Len(overflow) > 0 \/ ~shifted
        header == IF Len(overflow) > 0 THEN sContinuedContent ELSE continuedHeader(row.Label)
        yHeader == pageH - flowTopMargin
        body == IF Len(overflow) > 0
                THEN drawOverflow(pid, overflow, 0, yHeader - flowLineHeight * 2)
                ELSE writeLinesOnPage(pid, allLines, 0, yHeader - flowLineHeight * 2)
    IN  IF neededHeight <= available
        THEN [pdfDoc |-> doc, pages |-> drawPages, pageSizes |-> sizes,
              parsedPages |-> textPages,
              draws |-> writeLinesOnPage(page, allLines, 0, kwY), inserted |-> FALSE]
        ELSE IF ~inserts
        THEN [pdfDoc |-> doc, pages |-> drawPages, pageSizes |-> sizes,
              parsedPages |-> shiftedPages,
              draws |-> writeLinesOnPage(page, allLines, 0, kwY), inserted |-> FALSE]
        ELSE [pdfDoc |-> insertBlankAfter(doc, pageIndex, pid),
              pages |-> splice(drawPages, insertAt, pid),
              pageSizes |-> splice(sizes, insertAt,
                                   [width |-> pageW, height |-> pageH, pid |-> pid]),
              parsedPages |-> splice(shiftedPages, insertAt,
                                     [pageIndex |-> pageIndex + 1, width |-> pageW,
                                      height |-> pageH, items |-> <<>>, pid |-> pid]),
              draws |-> writeLinesOnPage(page, allLines, 0, kwY)
                        \o <<drawText(pid, header, yHeader * 10, baseFontSize)>> \o body,
              inserted |-> TRUE]

\* Keywords near the foot of both pages: on page 0 a token lies below the
\* keyword, on page 1 nothing does.
DocFlowFoot ==
    <<[width |-> 612, height |-> 792,
       items |-> <<tokenAt(sQ1, 50, 60, 10), tokenAt(sAnswer, 500, 60, 10),
                   tokenAt(sFiller, 50, 45, 10)>>],
      [width |-> 612, height |-> 792,
       items |-> <<tokenAt(sR1, 50, 50, 10), tokenAt(sCompliancy, 500, 50, 10)>>]>>

FlowDocs == {DocFlowFoot, DocSamePage}

\* The rows loadItems can deliver (Answer is trimmed by main).
FlowRows ==
    [Label : {sQ1, sR1, sQ9},
     Answer : {<<>>, <<"a"," ","a">>, <<" ","a"," ","a"," ","W">>},
     images : {<<>>}]

FlowInit ==
    \E doc \in FlowDocs :
        /\ main = [pc |-> "flowRows", rowsRead |-> 0, row |-> null, target |-> null,
                   contData |-> null, allLines |-> <<>>, original |-> Len(doc)]
        /\ parsedPages = [k \in 1..Len(doc) |->
                            [pageIndex |-> k - 1, width |-> doc[k].width,
                             height |-> doc[k].height, items |-> doc[k].items, pid |-> k]]
        /\ pdfDoc = pageIds(Len(doc))
        /\ pages = pageIds(Len(doc))
        /\ pageSizes = [k \in 1..Len(doc) |->
                            [width |-> doc[k].width, height |-> doc[k].height, pid |-> k]]
        /\ continuations = <<>>
        /\ skippedItems = <<>> /\ skippedCount = 0 /\ processedCount = 0
        /\ cont = [at |-> "idle"]
        /\ drawn = <<>>

\* One iteration of `for (const row of items)` of the token-shifting main
\* (`remaining` stays empty, so its spill loop never runs).
ProcessRowFlow ==
    /\ main.pc = "flowRows"
    /\ main.rowsRead < MaxRows
    /\ \E row \in FlowRows :
        LET label == trim(row.Label)
            answerText == trim(row.Answer)
            target == findTargetPositionFlow(parsedPages, label)
            result == writeAnswerWithFlow(pdfDoc, parsedPages, pages, pageSizes, row, target)
        IN  IF label = <<>> \/ answerText = <<>> \/ target = null
            THEN /\ main' = [main EXCEPT !.rowsRead = @ + 1, !.row = row, !.target = null]
                 /\ UNCHANGED <<pdfDoc, pages, pageSizes, parsedPages, drawn>>
            ELSE /\ main' = [main EXCEPT !.rowsRead = @ + 1, !.row = row, !.target = target]
                 /\ pdfDoc' = result.pdfDoc
                 /\ pages' = result.pages
                 /\ pageSizes' = result.pageSizes
                 /\ parsedPages' = result.parsedPages
                 /\ drawn' = drawn \o result.draws
    /\ UNCHANGED <<continuations, skippedItems, skippedCount, processedCount, cont>>
    /\ UNCHANGED <<wrap, find, box>>

\* The rows are exhausted.
EndRowsFlow ==
    /\ main.pc = "flowRows"
    /\ main' = [main EXCEPT !.pc = "save"]
    /\ UNCHANGED <<parsedPages, pages, pageSizes, pdfDoc, continuations,
                   skippedItems, skippedCount, processedCount, cont, drawn>>
    /\ UNCHANGED <<wrap, find, box>>

Init == (MainInit \/ FlowInit) /\ wrap = WrapIdle /\ find = FindIdle /\ box = BoxIdle

Next ==
    \/ ProcessRow \/ EndRows \/ BeginGroup \/ BeginJob \/ WhileStep
    \/ ProcessRowFlow \/ EndRowsFlow
    \/ Save

Spec == Init /\ [][Next]_vars

(***************************************************************************)
(* Claims about the parallel page lists and the continuation pages         *)
(***************************************************************************)
\* The page each entry of the three lists stands for, in list order.
PidsOf(list) == [n \in 1..Len(list) |-> list[n].pid]

InSync ==
    /\ Len(pages) = Len(pageSizes)
    /\ Len(pageSizes) = Len(parsedPages)
    /\ PidsOf(pageSizes) = pages
    /\ PidsOf(parsedPages) = pages

without(s, k) == SubSeq(s, 1, k - 1) \o SubSeq(s, k + 1, Len(s))

\* C1: the lists pages, pageSizes and parsedPages always have the same
\* length and hold the same pages in the same order, and every step that
\* inserts a page (in createContinuationPages or in writeAnswerWithFlow)
\* puts it at one index k of all three and leaves the other entries in
\* their order.
C1_ListsInSync ==
    /\ InSync
    /\ [][/\ InSync'
          /\ pages' # pages =>
                \E k \in 1..Len(pages') :
                    /\ without(pages', k) = pages
                    /\ without(PidsOf(pageSizes'), k) = PidsOf(pageSizes)
                    /\ without(PidsOf(parsedPages'), k) = PidsOf(parsedPages)
                    /\ ~ \E n \in 1..Len(pages) : pages[n] = pages'[k]]_vars

\* Two groups of continuation pages have been inserted, or a page by
\* writeAnswerWithFlow, and the run is over.
C1_Witness ==
    /\ main.pc = "done"
    /\ Len(pages) >= main.original + 2
    /\ cont.at = "returned" => \E a, b \in 1..Len(cont.created) :
                                   cont.created[a].sourcePage # cont.created[b].sourcePage

\* C2: the result of writeAnswerInBox accounts for every wrapped line:
\* linesWritten + length(remainingLines) = totalLines.
C2_LinesAccounted ==
    main.contData # null =>
        main.contData.linesWritten + Len(main.contData.remainingLines)
            = main.contData.totalLines

\* The 0-based position of page pid in a page order.
posOf(order, pid) == CHOOSE n \in 0..(Len(order) - 1) : order[n + 1] = pid

ContinuationsInPlace(order) ==
    LET created == cont.created
        original == main.original
    IN  /\ \A a, b \in 1..original : a < b => posOf(order, a) < posOf(order, b)
        /\ \A c \in 1..Len(created) :
              LET P == created[c].sourcePage
                  at == posOf(order, created[c].pid)
              IN  /\ posOf(order, P + 1) < at
                  /\ P + 2 <= original => at < posOf(order, P + 2)
                  /\ (\A b \in 1..(c - 1) : created[b].sourcePage # P)
                        => at = posOf(order, P + 1) + 1
                  /\ \A b \in 1..(c - 1) :
                        created[b].sourcePage = P => posOf(order, created[b].pid) < at

\* C3: when createContinuationPages has returned, the original pages are in
\* their original order, every continuation page of source page P lies
\* between original pages P and P+1, the first one right after P, and the
\* continuation pages of one source page are in the order of their creation.
C3_ContinuationOrder ==
    cont.at = "returned" => ContinuationsInPlace(pdfDoc) /\ ContinuationsInPlace(pages)

\* Two source pages got continuation pages, and the job of the later page
\* was queued first.
C3_Witness ==
    /\ cont.at = "returned"
    /\ Len(continuations) = 2
    /\ continuations[1].pageIndex > continuations[2].pageIndex
    /\ \E a, b \in 1..Len(cont.created) :
          cont.created[a].sourcePage # cont.created[b].sourcePage

(***************************************************************************)
(* Claims about one row of main                                            *)
(***************************************************************************)
\* The step is an iteration of main's loop over the rows.
RowStep == main.pc = "rows" /\ main'.rowsRead = main.rowsRead + 1

LabelAbsent(label) ==
    \A p \in 1..Len(parsedPages) : \A n \in 1..Len(parsedPages[p].items) :
        parsedPages[p].items[n].str # label

SkippedAndReported(label) ==
    /\ skippedItems' = Append(skippedItems, label)
    /\ drawn' = drawn
    /\ continuations' = continuations
    /\ main'.pc = "rows"

\* C6 as stated: every row whose Label equals no token of the text index is
\* reported in skippedItems, draws nothing, queues no job, and the loop goes on.
C6_AbsentLabelReported ==
    [][RowStep /\ LabelAbsent(trim(main'.row.Label))
          => SkippedAndReported(trim(main'.row.Label))]_vars

\* C6: every row with a non-empty Label and some content (a non-empty Answer
\* or an image) whose Label equals no token of the text index is reported in
\* skippedItems, draws nothing, queues no job, and the loop goes on.
C6_AbsentLabelWithContentReported ==
    [][(/\ RowStep
        /\ trim(main'.row.Label) # <<>>
        /\ (main'.row.Answer # <<>> \/ Len(main'.row.images) > 0)
        /\ LabelAbsent(trim(main'.row.Label)))
          => SkippedAndReported(trim(main'.row.Label))]_vars

\* A row with an absent label and an answer was reported, and the next row
\* was written.
C6_Witness ==
    /\ main.pc = "rows"
    /\ skippedItems = <<sQ9>>
    /\ skippedCount = 1
    /\ processedCount = 1

\* C10: when writeAnswerInBox is given more than 2 wrapped lines or an
\* image, it draws the old-text clearing and the first line only (no line
\* if there is none), returns the other lines in order and the images, and
\* main queues exactly one job for the row.
C10_FillPolicy ==
    [][(/\ RowStep
        /\ main'.contData # null
        /\ (Len(main'.allLines) > 2 \/ Len(main'.row.images) > 0))
          => LET result == main'.contData
                 allLines == main'.allLines
                 first == Min(1, Len(allLines))
             IN  /\ result.linesWritten = first
                 /\ Len(drawn') = Len(drawn) + 1 + first
                 /\ first = 1 => drawn'[Len(drawn')].text = allLines[1]
                 /\ result.remainingLines = SubSeq(allLines, first + 1, Len(allLines))
                 /\ result.images = main'.row.images
                 /\ continuations' = Append(continuations, result)]_vars

\* A three-line answer without images was written: one line in the box,
\* two lines queued.
C10_Witness ==
    /\ main.contData # null
    /\ Len(main.allLines) = 3
    /\ Len(main.row.images) = 0
    /\ main.contData.linesWritten = 1
    /\ Len(main.contData.remainingLines) = 2
    /\ Len(continuations) >= 1

\* An image-only row was written: no line in the box, the image queued.
C10_WitnessImageOnly ==
    /\ main.contData # null
    /\ main.allLines = <<>>
    /\ Len(main.contData.images) = 1
    /\ Len(continuations) >= 1

(***************************************************************************)
(* Claims about short answers, images and cross-page writes                *)
(***************************************************************************)
\* The step belongs to the continuation-page program and no job is queued
\* after it.
NothingQueued == main.pc \in {"rows", "continuations"} /\ continuations' = <<>>

\* C11: for a row without images whose text wraps to at most 2 lines,
\* writeAnswerInBox writes min(lines, maxLinesInBox) lines in place and
\* returns no remaining line, main queues no job for it, and as long as no
\* job is queued no page is inserted.
C11_ShortAnswerInPlace ==
    [][/\ (/\ RowStep
           /\ main'.contData # null
           /\ Len(main'.row.images) = 0
           /\ Len(main'.allLines) <= 2)
          => LET result == main'.contData
                 maxLinesInBox ==
                     writeAnswerInBox(pages, parsedPages, pageSizes,
                                      main'.row, main'.target).maxLinesInBox
             IN  /\ result.linesWritten = Min(Len(main'.allLines), maxLinesInBox)
                 /\ Len(drawn') = Len(drawn) + 1 + result.linesWritten
                 /\ result.remainingLines = <<>>
                 /\ continuations' = continuations
                 /\ <<pdfDoc', pages', pageSizes', parsedPages'>>
                        = <<pdfDoc, pages, pageSizes, parsedPages>>
       /\ NothingQueued => pdfDoc' = pdfDoc /\ pages' = pages]_vars

\* A two-line answer without images was written in place, both lines, and
\* the run ended without a job and without a new page.
C11_Witness ==
    /\ main.pc = "done"
    /\ main.contData # null
    /\ Len(main.row.images) = 0
    /\ Len(main.allLines) = 2
    /\ main.contData.linesWritten = 2
    /\ continuations = <<>>
    /\ Len(pdfDoc) = main.original

\* The jobs createContinuationPages works through, in its order: group by
\* group in ascending source page, queue order within a group.
RECURSIVE jobsFrom(_, _)
jobsFrom(sorted, g) ==
    IF g > Len(sorted) THEN <<>>
    ELSE groupOf(continuations, sorted[g]) \o jobsFrom(sorted, g + 1)

jobsInOrder == jobsFrom(sortedPagesOf(continuations), 1)

RECURSIVE Flatten(_)
Flatten(seqs) == IF seqs = <<>> THEN <<>> ELSE Head(seqs) \o Flatten(Tail(seqs))

isHeader(d) ==
    /\ d.op = "drawText"
    /\ \E n \in 1..Len(continuations) : d.text = continuationHeader(continuations[n].label)

\* What was drawn on the inserted pages: the text lines (headers aside) and
\* the images, each in drawing order.
ContinuationLines ==
    LET isLine(d) == d.op = "drawText" /\ d.page > main.original /\ ~isHeader(d)
        lines == SelectSeq(drawn, isLine)
    IN  [n \in 1..Len(lines) |-> lines[n].text]

ContinuationImages ==
    LET isImage(d) == d.op = "drawImage"
        images == SelectSeq(drawn, isImage)
    IN  [n \in 1..Len(images) |-> images[n].image]

hasUnsupported(images) == \E n \in 1..Len(images) : ~embeddable(images[n])

\* C12: an image that is not png/jpeg, or that fails to embed, is never
\* drawn; a row that carries one still gets its first line written in the
\* box; and once createContinuationPages has returned, every remaining line
\* of every job and every other image of every job has been drawn on the
\* continuation pages, in the order of the jobs.
C12_UnsupportedImageSkipped ==
    /\ \A n \in 1..Len(drawn) :
          drawn[n].op = "drawImage" =>
              drawn[n].image.extension \in {"png", "jpeg", "jpg"} /\ drawn[n].image.valid
    /\ (main.contData # null /\ hasUnsupported(main.row.images)) =>
          /\ main.contData.linesWritten = Min(1, Len(main.allLines))
          /\ main.contData.remainingLines = SubSeq(main.allLines, 2, Len(main.allLines))
    /\ cont.at = "returned" =>
          /\ ContinuationLines =
                Flatten([n \in 1..Len(jobsInOrder) |-> jobsInOrder[n].remainingLines])
          /\ ContinuationImages =
                Flatten([n \in 1..Len(jobsInOrder) |->
                            LET supported(img) ==
                                    img.extension \in {"png", "jpeg", "jpg"} /\ img.valid
                            IN  SelectSeq(jobsInOrder[n].images, supported)])

\* A row with a gif, a jpeg, a corrupt png and a png and a three-line answer
\* was followed by another job; the run was saved with the two lines, the
\* jpeg, the png and the other job's image on continuation pages.
C12_Witness ==
    /\ main.pc = "done"
    /\ cont.at = "returned"
    /\ Len(continuations) = 2
    /\ continuations[1].images = <<imgGif, imgJpgLarge, imgPngCorrupt, imgPng>>
    /\ Len(continuations[1].remainingLines) = 2
    /\ continuations[2].images = <<imgPng>>
    /\ ContinuationImages \in {<<imgJpgLarge, imgPng, imgPng>>, <<imgPng, imgJpgLarge, imgPng>>}

\* The drawing calls a step adds.
NewDraws == SubSeq(drawn', Len(drawn) + 1, Len(drawn'))

\* C13: when the keyword is resolved on a later page than the label,
\* writeAnswerInBox draws on the page at target.pageIndex only, the write
\* leaves the text index and the page and size lists as they were, and the
\* job it returns (and main queues) is attached to pageIndex.
C13_CrossPageWrite ==
    [][(/\ RowStep
        /\ main'.target # null
        /\ main'.target.labelPageIndex < main'.target.pageIndex)
          => /\ NewDraws # <<>>
             /\ \A n \in 1..Len(NewDraws) :
                   NewDraws[n].page = pages[main'.target.pageIndex + 1]
             /\ <<parsedPages', pages', pageSizes', pdfDoc'>>
                   = <<parsedPages, pages, pageSizes, pdfDoc>>
             /\ main'.contData.pageIndex = main'.target.pageIndex
             /\ continuations' # continuations =>
                   continuations'[Len(continuations')].pageIndex = main'.target.pageIndex]_vars

\* R1 stands on page 0 and its keyword on page 1: the answer was drawn and
\* its job queued, and the job's continuation page follows page 1.
C13_Witness ==
    /\ cont.at = "returned"
    /\ main.target # null
    /\ main.target.labelPageIndex = 0
    /\ main.target.pageIndex = 1
    /\ Len(continuations) = 1
    /\ \E n \in 1..Len(cont.created) : cont.created[n].sourcePage = 1

(***************************************************************************)
(* The lookahead window of findTargetPosition                              *)
(***************************************************************************)
\* The qualifying tokens among the first 150 tokens of page q.
KeywordsInCap(textPages, q, label) ==
    {k \in 0..(Min(150, Len(textPages[q + 1].items)) - 1) :
        Qualifies(label, item(textPages[q + 1], k).str)}

\* C15: a match lies 0 to 10 pages after its label, and a match on a later
\* page is the first qualifying token among the first 150 tokens of the
\* nearest page after the label's that has one there.
C15_BoundedLookahead ==
    Resolved =>
        LET t == find.target
            ahead == t.pageIndex - t.labelPageIndex
            Near == {q \in (t.labelPageIndex + 1)..(Len(find.pages) - 1) :
                        KeywordsInCap(find.pages, q, find.label) # {}}
        IN  /\ 0 <= ahead /\ ahead <= 10
            /\ ahead > 0 =>
                  /\ Near # {}
                  /\ t.pageIndex = Least(Near)
                  /\ TokenAt(find.pages, t.pageIndex, t.y)
                        = item(find.pages[t.pageIndex + 1],
                               Least(KeywordsInCap(find.pages, t.pageIndex, find.label)))

\* The match lies 10 pages after the label, at the 150th token of its page.
C15_Witness ==
    /\ Resolved
    /\ find.target.pageIndex - find.target.labelPageIndex = 10
    /\ Len(find.pages[find.target.pageIndex + 1].items) >= 150
    /\ TokenAt(find.pages, find.target.pageIndex, find.target.y)
          = item(find.pages[find.target.pageIndex + 1], 149)

\* A keyword 11 pages after the label, and one at the 151st token of its
\* page, are left alone: the label stays unresolved.
C15_WitnessOutside ==
    /\ find.pc = "resolved"
    /\ find.target = null
    /\ \E q \in 1..(Len(find.pages) - 1) :
          \E k \in 0..(Len(find.pages[q + 1].items) - 1) :
              Qualifies(find.label, item(find.pages[q + 1], k).str)

(***************************************************************************)
(* The box height writeAnswerInBox works with                              *)
(***************************************************************************)
\* writeAnswerInBox: the check of calculatedHeight, and boxHeight
EnsureUsableHeight ==
    /\ box.pc = "bounded"
    /\ box' = [pc |-> "sized", parsedPages |-> box.parsedPages,
               kwY |-> box.kwY, kwX |-> box.kwX,
               found |-> box.boxBottom,
               boxBottom |-> usableBoxBottom(box.kwY, box.boxBottom),
               boxHeight |-> box.kwY - usableBoxBottom(box.kwY, box.boxBottom)]
    /\ UNCHANGED <<wrap, find, mainVars>>

SpecSizeNext == BoundBox \/ EnsureUsableHeight

SpecSize == SpecBoxInit /\ [][SpecSizeNext]_vars

\* C16: the box height kwY - boxBottom that writeAnswerInBox uses is never
\* negative and never below 30, wherever the keyword and the tokens below
\* it lie.
C16_UsableBoxHeight ==
    box.pc = "sized" =>
        /\ box.boxHeight = box.kwY - box.boxBottom
        /\ box.boxHeight >= 0
        /\ box.boxHeight >= minUsableHeight

\* A keyword 40pt above the page bottom with nothing below it: findBoxBottom
\* returns 45, above the keyword, and the height is forced to 50.
C16_Witness ==
    /\ box.pc = "sized"
    /\ box.found > box.kwY
    /\ box.boxHeight = forcedBoxHeight

\* A token 13pt below the keyword leaves a height of 1, which is forced too.
C16_WitnessTight ==
    /\ box.pc = "sized"
    /\ box.kwY - box.found = 1
    /\ box.boxHeight = forcedBoxHeight

(***************************************************************************)
(* Claims about the cycles of a continuation job                           *)
(***************************************************************************)
\* The step is an iteration of the while loop of a job.
CycleStep == cont.at = "while" /\ drawn' # drawn

currentJob == groupOf(continuations, cont.sortedPages[cont.g])[cont.c]

\* The image the cycle drew, if it drew one (it is the last call of the cycle).
DrewImage == NewDraws[Len(NewDraws)].op = "drawImage"

\* The cursor after the text of the cycle: two line heights below the
\* header, and one more for every line drawn.
CursorAfterText ==
    NewDraws[1].y10 - currentJob.lineHeight10 * (2 + Len(NewDraws) - 2)

\* C17: every image drawn on a continuation page has its top edge at or
\* below the cursor reached after the text of its cycle and its bottom edge
\* at or above y = 50, and no header, line or image drawn earlier on the
\* same page lies below its top edge.
C17_ImageHasRoom ==
    [][(CycleStep /\ DrewImage)
          => LET img == NewDraws[Len(NewDraws)]
                 top == img.y10 + img.height10
             IN  /\ top <= CursorAfterText
                 /\ img.y10 >= imageFloor * 10
                 /\ \A n \in 1..(Len(drawn') - 1) :
                       drawn'[n].page = img.page => drawn'[n].y10 >= top]_vars

\* C18: no image of a job is drawn before all of the job's remaining lines
\* have been drawn: a cycle that draws an image leaves no line of the job
\* behind.
C18_ImagesAfterLines ==
    [][(CycleStep /\ DrewImage) => cont'.remainingLines = <<>>]_vars

\* The text lines a cycle drew: its drawText calls after the header.
CycleLines ==
    LET isText(d) == d.op = "drawText"
        texts == SelectSeq(Tail(NewDraws), isText)
    IN  [n \in 1..Len(texts) |-> texts[n].text]

isSuffix(s, t) == Len(s) <= Len(t) /\ s = SubSeq(t, Len(t) - Len(s) + 1, Len(t))

\* C19: the lines drawn on the continuation pages of a job are the job's
\* remainingLines, each once and in order: the loop starts from a copy of
\* them, every cycle draws exactly the lines it takes off the front of the
\* copy (header first, top-down on the current page), the loop is left only
\* with the copy empty, the queued jobs are never modified, and when
\* createContinuationPages has returned the lines on the inserted pages are
\* the remainingLines of the jobs, job after job.
C19_LinesDrawnOnce ==
    /\ [](cont.at = "while" => isSuffix(cont.remainingLines, currentJob.remainingLines))
    /\ [](cont.at = "returned" =>
            ContinuationLines =
                Flatten([n \in 1..Len(jobsInOrder) |-> jobsInOrder[n].remainingLines]))
    /\ [][/\ main.pc = "continuations" => continuations' = continuations
          /\ (cont.at = "job" /\ cont'.at = "while") =>
                cont'.remainingLines = currentJob.remainingLines
          /\ CycleStep =>
                /\ isHeader(NewDraws[1])
                /\ CycleLines \o cont'.remainingLines = cont.remainingLines
                /\ \A n \in 1..Len(NewDraws) : NewDraws[n].page = cont'.currentPage
                /\ \A n \in 2..Len(NewDraws) : NewDraws[n].y10 < NewDraws[n - 1].y10
                /\ cont'.at # "while" => cont'.remainingLines = <<>>]_vars

\* A job with two remaining lines got them on two continuation pages, one
\* line each, and createContinuationPages returned.
C19_Witness ==
    /\ cont.at = "returned"
    /\ Len(continuations) = 1
    /\ Len(continuations[1].remainingLines) = 2
    /\ Len(cont.created) = 2
    /\ \E a, b \in 1..Len(drawn) :
          /\ a < b
          /\ drawn[a].page = cont.created[1].pid
          /\ drawn[a].text = continuations[1].remainingLines[1]
          /\ drawn[b].page = cont.created[2].pid
          /\ drawn[b].text = continuations[1].remainingLines[2]

\* C20: the pageIndex stored in every entry of parsedPages is the entry's
\* (0-based) position in the list.
C20_PageIndexIsPosition ==
    \A n \in 1..Len(parsedPages) : parsedPages[n].pageIndex = n - 1

(***************************************************************************)
(* Termination of the continuation jobs                                    *)
(***************************************************************************)
\* The program is sequential: whatever step it can take next, it takes.
SpecLive == Init /\ [][Next]_vars /\ WF_vars(Next)

\* The cycle opened a new page.
OpensPage == CycleStep /\ Len(cont'.created) > Len(cont.created)

\* The cycle took a line or an image off what the job has left.
Progresses ==
    \/ Len(cont'.remainingLines) < Len(cont.remainingLines)
    \/ Len(cont'.embeddedImages) < Len(cont.embeddedImages)

\* C14: every continuation job terminates after finitely many pages. Every
\* cycle that opens a page starts from the same cursor (pageH - 70), so one
\* that draws neither a line nor an image is followed by cycles that draw
\* nothing either until the next page is opened, and then repeats: the loop
\* exits if and only if every cycle that opens a page draws a line or an
\* image of the job.
C14_JobTerminates == [][OpensPage => Progresses]_vars

\* The same as a property of the behaviours of SpecLive: once the while loop
\* of a job has been entered it is eventually left with the remaining lines
\* and the embedded images both exhausted.
JobEventuallyDone ==
    (cont.at = "while")
        ~> (cont.at \in {"job", "group", "returned"}
            /\ cont.remainingLines = <<>> /\ cont.embeddedImages = <<>>)

(***************************************************************************)
(* The order of writing and inserting in the continuation-page program     *)
(***************************************************************************)
\* The page lists are those of the document as it was loaded.
ListsAsLoaded ==
    /\ pdfDoc = pageIds(main.original)
    /\ pages = pageIds(main.original)
    /\ PidsOf(pageSizes) = pageIds(main.original)
    /\ PidsOf(parsedPages) = pageIds(main.original)
    /\ \A n \in 1..Len(parsedPages) : parsedPages[n].pageIndex = n - 1

\* C21: in the continuation-page program no page is inserted while rows
\* are read: every findTargetPosition and writeAnswerInBox call sees the
\* page lists as loaded, every queued job stores the index of an original
\* page, and once createContinuationPages runs globalInsertOffset is the
\* number of pages inserted so far, so that the insertion point of a group
\* is its source page plus the pages inserted before it.
C21_InsertAfterRows ==
    /\ main.pc = "rows" => ListsAsLoaded /\ cont.at = "idle"
    /\ main.pc \in {"rows", "continuations"} =>
          \A n \in 1..Len(continuations) :
              continuations[n].pageIndex \in 0..(main.original - 1)
    /\ cont.at \in {"group", "job", "while", "returned"} =>
          /\ cont.globalInsertOffset = Len(pdfDoc) - main.original
          /\ cont.globalInsertOffset = Len(cont.created)
    /\ (cont.at = "job" /\ cont.c = 1 /\ cont.currentPage = NoPage) =>
          /\ cont.insertAt = cont.sortedPages[cont.g] + (Len(pdfDoc) - main.original)
          /\ pdfDoc[cont.insertAt + 1] = cont.sortedPages[cont.g] + 1

\* Two rows were written before any page existed beyond the loaded ones;
\* the first group has got its pages and the second group is about to start
\* behind them.
C21_Witness ==
    /\ cont.at = "job"
    /\ cont.g = 2
    /\ cont.c = 1
    /\ cont.currentPage = NoPage
    /\ cont.globalInsertOffset >= 1
    /\ Len(continuations) = 2
    /\ main.rowsRead = 2

=============================================================================
